---- MODULE Spec2Model ----
(***************************************************************************)
(* A state-machine model of the Brewin interpreter of interpreterv2.py:    *)
(* the class index, the heap of mutable Value objects, the objects with    *)
(* their super-objects, and the stack of call_method activations, each     *)
(* with its EnvironmentManager and the compound statements it is inside.   *)
(* The class definitions (names, fields, method signatures) are those of   *)
(* Prog below; the method bodies are left open: every activation may       *)
(* execute any statement the statement interpreter accepts.                *)
(***************************************************************************)
EXTENDS Integers, Sequences, FiniteSets, TLC

\* ------------------------------------------------------------------ bounds
MaxSteps == 6      \* statements and method ends of one run
MaxObjs == 4       \* objects the run may instantiate (main's three included)
MaxCells == 8      \* Value objects alive at the same time
MaxDepth == 3      \* nested call_method activations
MaxNest == 2       \* compound statements open at the same time

\* ------------------------------------------------------------------ values
NoObj == 0         \* Python None as an object reference / payload
NoRef == 0         \* Python None where a Value object is expected
NoLine == 0        \* error reported without a line number
NoClass == "None"  \* ClassDef.superclass of a class that inherits nothing

PrimTypes == {"INT", "BOOL", "STRING", "CLASS", "NOTHING", "VOID"}

\* Value(value_type, value): the payload is kept in the field of its own sort
Value(t, i, b, s, o) == [type |-> t, i |-> i, b |-> b, s |-> s, o |-> o]
IntV(n) == Value("INT", n, FALSE, "", NoObj)
BoolV(b) == Value("BOOL", 0, b, "", NoObj)
StrV(s) == Value("STRING", 0, FALSE, s, NoObj)
ObjV(t, o) == Value(t, 0, FALSE, "", o)
NothingV == Value("NOTHING", 0, FALSE, "", NoObj)
NoValue == Value("None", 0, FALSE, "", NoObj)
FreeCell == Value("Free", 0, FALSE, "", NoObj)

IsClassType(t) == t \notin PrimTypes

\* the literal tokens of the programs considered
IntTokens == {"0", "1", "-1", "2", "7", "-7"}
StrTokens == {"\"\"", "\"s\""}
IntOf(tok) ==
    CASE tok = "0" -> 0 [] tok = "1" -> 1 [] tok = "-1" -> 0 - 1
      [] tok = "2" -> 2 [] tok = "7" -> 7 [] tok = "-7" -> 0 - 7
Strip(tok) == CASE tok = "\"\"" -> "" [] tok = "\"s\"" -> "s"

create_value(val, class_name) ==
    IF val = "true" THEN BoolV(TRUE)
    ELSE IF val = "false" THEN BoolV(FALSE)
    ELSE IF val \in StrTokens THEN StrV(Strip(val))
    ELSE IF val \in IntTokens THEN IntV(IntOf(val))
    ELSE IF val = "null" THEN ObjV(class_name, NoObj)
    ELSE IF val = "nothing" THEN NothingV
    ELSE NoValue

\* ------------------------------------------------------------------ program
Field(t, n, l) == [type |-> t, name |-> n, lit |-> l]
Formal(t, n) == [type |-> t, name |-> n]
Method(r, n, f) == [return_type |-> r, method_name |-> n, formal_params |-> f]

Prog ==
    [A |-> [superclass |-> NoClass,
            fields |-> << Field("int", "x", "0") >>,
            methods |-> << Method("int", "m", << Formal("int", "p") >>),
                           Method("void", "n", << Formal("A", "q") >>),
                           Method("B", "k", << >>),
                           Method("string", "s", << >>),
                           Method("bool", "t", << >>) >>],
     B |-> [superclass |-> "A",
            fields |-> << Field("int", "x", "1") >>,
            methods |-> << Method("int", "m", << Formal("int", "p"), Formal("int", "r") >>),
                           Method("void", "n", << Formal("B", "q") >>) >>],
     C |-> [superclass |-> "A", fields |-> << >>, methods |-> << >>],
     main |-> [superclass |-> "B",
               fields |-> << Field("B", "fb", "null"), Field("A", "fa", "null") >>,
               methods |-> << Method("void", "main", << >>) >>]]

ClassNames == DOMAIN Prog
MAIN_CLASS_DEF == "main"
MAIN_FUNC_DEF == "main"

Superclass(c) == Prog[c].superclass

Range(f) == {f[i] : i \in DOMAIN f}

get_type(type_name) ==
    IF type_name = "int" THEN "INT"
    ELSE IF type_name = "string" THEN "STRING"
    ELSE IF type_name = "bool" THEN "BOOL"
    ELSE IF type_name = "null" THEN "CLASS"
    ELSE IF type_name = "void" THEN "VOID"
    ELSE IF type_name = "nothing" THEN "NOTHING"
    ELSE IF type_name \in ClassNames THEN type_name
    ELSE "TypeError"

\* the while loop of check_type_and_value: the class reached walking up from
\* class c until it is t, or NoClass when the chain ends first
RECURSIVE WalkUp(_, _)
WalkUp(c, t) ==
    IF c = t THEN c
    ELSE IF Superclass(c) = NoClass THEN NoClass
    ELSE WalkUp(Superclass(c), t)

\* result of a check: the Value as check_type_and_value leaves it, or the error
Checked(v) == [ok |-> TRUE, val |-> v]
Refused(k, m, type, val) ==
    [ok |-> FALSE, kind |-> k, msg |-> m, expected |-> type, actual |-> val.type]

type_mismatch(type, val, is_param) ==
    IF is_param THEN Refused("NAME_ERROR", "mismatched parameter and value", type, val)
    ELSE Refused("TYPE_ERROR", "mismatched type and value", type, val)

\* check_type_and_value without the upcast of a parameter
check_type_and_value_no_upcast(type, val, is_param) ==
    IF IsClassType(type) /\ val.type = "CLASS" /\ val.o = NoObj
    THEN Checked(create_value("null", type))
    ELSE IF IsClassType(val.type) /\ IsClassType(type)
    THEN IF WalkUp(val.type, type) = type
         THEN Checked(val)
         ELSE Refused("TYPE_ERROR", "mismatched classes", type, val)
    ELSE IF type # val.type THEN type_mismatch(type, val, is_param)
    ELSE Checked(val)

check_type_and_value(type, val, is_param) ==
    IF IsClassType(type) /\ val.type = "CLASS" /\ val.o = NoObj
    THEN Checked(create_value("null", type))
    ELSE IF IsClassType(val.type) /\ IsClassType(type)
    THEN IF WalkUp(val.type, type) = type
         THEN Checked(IF is_param THEN ObjV(type, val.o) ELSE val)
         ELSE Refused("TYPE_ERROR", "mismatched classes", type, val)
    ELSE IF type # val.type THEN type_mismatch(type, val, is_param)
    ELSE Checked(val)

\* ------------------------------------------------------------------ state
VARIABLES
    cells,   \* the Value objects: cell -> Value, FreeCell when unused
    objs,    \* the ObjectDefs: obj -> [cls, super_obj, fields: name -> cell]
    stack,   \* the activations of call_method, innermost last
    err,     \* the error the interpreter stopped with, if any
    steps,   \* the statements executed so far
    load,    \* Interpreter.run before main runs: the program, the pass over
             \* it, the item the pass is at, the names in class_index
    last     \* what the step taken last did: the objects `me` stood for
             \* in it, the value a call_method that ended in it returned, and
             \* the compound statement it left

vars == << cells, objs, stack, err, steps, last, load >>

Cells == 1 .. MaxCells
Objs == 1 .. MaxObjs

Min(S) == CHOOSE x \in S : \A y \in S : x <= y
Max(S) == CHOOSE x \in S : \A y \in S : x >= y
Index(seq, n) == CHOOSE i \in DOMAIN seq : seq[i] = n
Last(s) == s[Len(s)]
Front(s) == SubSeq(s, 1, Len(s) - 1)

\* the FieldDefs of the class index in the order ClassDef builds them; the
\* default_field_value of the i-th is the Value object in cell i
FieldDefs == << [cls |-> "A", name |-> "x"], [cls |-> "B", name |-> "x"],
                [cls |-> "main", name |-> "fb"], [cls |-> "main", name |-> "fa"] >>

FieldOf(c, n) == CHOOSE f \in Range(Prog[c].fields) : f.name = n
FieldNames(c) == {f.name : f \in Range(Prog[c].fields)}
default_field_value(c, n) == Index(FieldDefs, [cls |-> c, name |-> n])

\* FieldDef.__init__: the literal, checked against the declared type
FieldDefInit(c, n) ==
    check_type_and_value(get_type(FieldOf(c, n).type),
                         create_value(FieldOf(c, n).lit, "CLASS"), FALSE).val

EmptyFrame == [n \in {} |-> NoRef]
NoObject == [cls |-> NoClass, super_obj |-> NoObj, fields |-> EmptyFrame]

\* ObjectDef.__map_fields_to_values
map_fields_to_values(c) == [n \in FieldNames(c) |-> default_field_value(c, n)]

FreeObjs(os) == {o \in Objs : os[o].cls = NoClass}
RECURSIVE ChainLen(_)
ChainLen(c) == IF c = NoClass THEN 0 ELSE 1 + ChainLen(Superclass(c))

\* Interpreter.instantiate: the super-object first, then the object itself
RECURSIVE instantiate(_, _)
instantiate(os, c) ==
    LET sup == IF Superclass(c) # NoClass THEN instantiate(os, Superclass(c))
               ELSE [objs |-> os, obj |-> NoObj]
        id == Min(FreeObjs(sup.objs))
    IN [objs |-> [sup.objs EXCEPT ![id] = [cls |-> c, super_obj |-> sup.obj,
                                           fields |-> map_fields_to_values(c)]],
        obj |-> id]

\* InterpreterBase.error(kind, message, line): the run ends. The report keeps
\* what the failing step was about: the name in the message, the line of
\* the statement being executed, for a refused check its place and the two
\* types, for a failed call the class of the receiver and the number of
\* arguments.
Error(k, m, l, n) ==
    [kind |-> k, msg |-> m, line |-> l, name |-> n, stmt |-> NoLine,
     pos |-> "", expected |-> "", actual |-> "", recv |-> NoClass, nargs |-> 0]
CheckError(c, pos) ==
    [Error(c.kind, c.msg, NoLine, "") EXCEPT
        !.pos = pos, !.expected = c.expected, !.actual = c.actual]
NoErr == Error("", "", NoLine, "")

\* nothing to tell of the last step; a use of `me` in it; a method's return
NoReturn == [type |-> "", default |-> FALSE, val |-> NoValue]
NoExit == [kind |-> "", status |-> ""]
Did(me, owner, want, ret) ==
    [me |-> me, owner |-> IF me = {} THEN NoObj ELSE owner,
     want |-> IF me = {} THEN NoObj ELSE want, ret |-> ret, out |-> NoExit]
Nothing == Did({}, NoObj, NoObj, NoReturn)
\* the compound statement the last step left, and the status it left it with
Left(kind, status) == [Nothing EXCEPT !.out = [kind |-> kind, status |-> status]]

Activation(self, first, recv, m, k, frame) ==
    [self |-> self, first_obj |-> first, recv |-> recv, method_name |-> m,
     actual_params |-> k, env |-> << frame >>, ctx |-> << >>, status |-> "run",
     rv |-> NoRef, pend |-> "none", pvar |-> ""]

\* a class of Prog as the item of the parsed program it was built from
Item(c) == [name |-> c, superclass |-> Prog[c].superclass,
            fields |-> Prog[c].fields, methods |-> Prog[c].methods]

\* Interpreter.run, after the class index is built: main is instantiated and
\* its method main is called with no arguments and no line number
Init ==
    LET main == instantiate([o \in Objs |-> NoObject], MAIN_CLASS_DEF) IN
    /\ cells = [c \in Cells |->
                  IF c \in DOMAIN FieldDefs
                  THEN FieldDefInit(FieldDefs[c].cls, FieldDefs[c].name)
                  ELSE FreeCell]
    /\ objs = main.objs
    /\ stack = << Activation(main.obj, NoObj, main.obj, MAIN_FUNC_DEF, << >>, EmptyFrame) >>
    /\ err = NoErr
    /\ steps = 0
    /\ last = Nothing
    /\ load = [program |-> << Item("A"), Item("B"), Item("C"), Item("main") >>, pass |-> "run",
               at |-> 0, class_index |-> ClassNames]

\* ------------------------------------------------------------------ environment
\* a search of the frames that stops at the frame pushed first
EnvFind_oldest_first(env, symbol) ==
    LET S == {i \in 1 .. Len(env) : symbol \in DOMAIN env[i]}
    IN IF S = {} THEN 0 ELSE CHOOSE i \in S : \A j \in S : i <= j

\* EnvironmentManager: the frame the loop over reversed(self.environment)
\* stops at, 0 when no frame defines the symbol
EnvFind(env, symbol) ==
    LET S == {i \in 1 .. Len(env) : symbol \in DOMAIN env[i]}
    IN IF S = {} THEN 0 ELSE Max(S)

env_get(env, symbol) ==
    IF EnvFind(env, symbol) = 0 THEN NoRef ELSE env[EnvFind(env, symbol)][symbol]

env_set(env, symbol, ref) ==
    IF EnvFind(env, symbol) = 0 THEN env
    ELSE [env EXCEPT ![EnvFind(env, symbol)] =
            [n \in DOMAIN @ |-> IF n = symbol THEN ref ELSE @[n]]]

add_env(env, new_env) == Append(env, new_env)

\* a remove_env that leaves the frame where it is
remove_env_kept(env) == env

remove_env(env) == SubSeq(env, 1, Len(env) - 1)

\* ------------------------------------------------------------------ heap
Top == stack[Len(stack)]

\* the line number of the statement the innermost activation is executing:
\* the programs considered put the statement at nesting depth n of the body
\* of the d-th activation on line 10 * d + n
line_num(st) ==
    10 * Len(st) + Len(Last(st).ctx)
    - (IF Last(st).ctx # << >> /\ Last(Last(st).ctx) = "cond" THEN 1 ELSE 0)

\* results of the evaluator's steps: the heap as the step leaves it, the
\* Value object it yields and the objects `me` stood for, or the error it
\* reports; "full" when the step needs more objects or Value objects than
\* the bounds allow
Ok(cs, os, ref) == [st |-> "ok", cells |-> cs, objs |-> os, ref |-> ref, me |-> {}]
Bad(e) == [st |-> "err", e |-> e]
Full == [st |-> "full"]

FreeCells(cs) == {c \in Cells : cs[c] = FreeCell}

\* a new Value object
Fresh(cs, os, v) ==
    IF FreeCells(cs) = {} THEN Full
    ELSE Ok([cs EXCEPT ![Min(FreeCells(cs))] = v], os, Min(FreeCells(cs)))

\* the Value objects something still refers to: the default values of the
\* FieldDefs, the fields of the objects, the frames and the returned values
\* of the activations; the others are dropped
Roots(os, st) ==
    DOMAIN FieldDefs
    \cup UNION {Range(os[o].fields) : o \in Objs}
    \cup UNION {UNION {Range(st[d].env[i]) : i \in DOMAIN st[d].env} : d \in DOMAIN st}
    \cup {st[d].rv : d \in DOMAIN st}

Collect(cs, os, st) == [c \in Cells |-> IF c \in Roots(os, st) THEN cs[c] ELSE FreeCell]

\* ------------------------------------------------------------------ expressions
Leaf(tok) == [op |-> "leaf", tok |-> tok]
New(c) == [op |-> "new", tok |-> c]

\* ObjectDef.__execute_new_aux
execute_new_aux(cs, os, class_name, line) ==
    IF class_name \notin ClassNames
    THEN Bad(Error("TYPE_ERROR", "No class named", line, class_name))
    ELSE IF Cardinality(FreeObjs(os)) < ChainLen(class_name) THEN Full
    ELSE LET r == instantiate(os, class_name)
         IN Fresh(cs, r.objs, ObjV(class_name, r.obj))

\* the Value `me` evaluates to as a leaf expression of the activation a
MeValue(cs, os, a) ==
    LET r == Fresh(cs, os, ObjV(os[a.self].cls, a.self))
    IN IF r.st = "ok" THEN [r EXCEPT !.me = {a.self}] ELSE r

\* the object an object is the super-object of, and so on down to the object
\* that instantiate returned
RECURSIVE MostDerived(_, _)
MostDerived(os, o) ==
    IF \E d \in Objs : os[d] # NoObject /\ os[d].super_obj = o
    THEN MostDerived(os, CHOOSE d \in Objs : os[d] # NoObject /\ os[d].super_obj = o)
    ELSE o

\* the first object from o up the super_obj links that has a field named n
RECURSIVE Holder(_, _, _)
Holder(os, o, n) ==
    IF o = NoObj THEN NoObj
    ELSE IF n \in DOMAIN os[o].fields THEN o
    ELSE Holder(os, os[o].super_obj, n)

\* __evaluate_expression looking a field up from the most-derived object
evaluate_expression_from_receiver(cs, os, a, expr, line) ==
    LET h == Holder(os, MostDerived(os, a.self), expr.tok) IN
    IF expr.op = "leaf"
    THEN IF env_get(a.env, expr.tok) # NoRef
         THEN Ok(cs, os, env_get(a.env, expr.tok))
         ELSE IF h # NoObj
         THEN Ok(cs, os, os[h].fields[expr.tok])
         ELSE IF expr.tok = "me"
         THEN MeValue(cs, os, a)
         ELSE IF create_value(expr.tok, "CLASS") # NoValue
         THEN Fresh(cs, os, create_value(expr.tok, "CLASS"))
         ELSE Bad(Error("NAME_ERROR", "invalid field or parameter", line, expr.tok))
    ELSE execute_new_aux(cs, os, expr.tok, line)

\* ------------------------------------------------------------------ operators
binary_op_list == {"+", "-", "*", "/", "%", "==", "!=", "<", "<=", ">", ">=", "&", "|"}
unary_op_list == {"!"}
Binary(o, e1, e2) == [op |-> o, lhs |-> e1, rhs |-> e2]
Unary(o, e1) == [op |-> o, lhs |-> e1]

\* Python's a // b and a % b on ints, b # 0: the quotient is rounded down and
\* the remainder has the sign of b
FloorDiv(a, b) == IF b > 0 THEN a \div b ELSE (0 - a) \div (0 - b)
FloorMod(a, b) == a - b * FloorDiv(a, b)

\* the strings of the programs considered are repetitions of one character,
\* which Python orders by length
StrLess(s, t) == Len(s) < Len(t)

\* self.binary_ops[type][operator](a, b); NoValue when the table of the type
\* has no such operator
binary_ops(type, operator, a, b) ==
    IF type = "INT"
    THEN CASE operator = "+" -> IntV(a.i + b.i)
           [] operator = "-" -> IntV(a.i - b.i)
           [] operator = "*" -> IntV(a.i * b.i)
           [] operator = "/" -> IntV(FloorDiv(a.i, b.i))
           [] operator = "%" -> IntV(FloorMod(a.i, b.i))
           [] operator = "==" -> BoolV(a.i = b.i)
           [] operator = "!=" -> BoolV(a.i # b.i)
           [] operator = ">" -> BoolV(a.i > b.i)
           [] operator = "<" -> BoolV(a.i < b.i)
           [] operator = ">=" -> BoolV(a.i >= b.i)
           [] operator = "<=" -> BoolV(a.i <= b.i)
           [] OTHER -> NoValue
    ELSE IF type = "STRING"
    THEN CASE operator = "+" -> StrV(a.s \o b.s)
           [] operator = "==" -> BoolV(a.s = b.s)
           [] operator = "!=" -> BoolV(a.s # b.s)
           [] operator = ">" -> BoolV(StrLess(b.s, a.s))
           [] operator = "<" -> BoolV(StrLess(a.s, b.s))
           [] operator = ">=" -> BoolV(~StrLess(a.s, b.s))
           [] operator = "<=" -> BoolV(~StrLess(b.s, a.s))
           [] OTHER -> NoValue
    ELSE IF type = "BOOL"
    THEN CASE operator = "&" -> BoolV(a.b /\ b.b)
           [] operator = "|" -> BoolV(a.b \/ b.b)
           [] operator = "==" -> BoolV(a.b = b.b)
           [] operator = "!=" -> BoolV(a.b # b.b)
           [] OTHER -> NoValue
    ELSE CASE operator = "==" -> BoolV(a.o = b.o)
           [] operator = "!=" -> BoolV(a.o # b.o)
           [] OTHER -> NoValue

\* self.unary_ops[Type.BOOL][operator](a)
unary_ops(operator, a) == IF operator = "!" THEN BoolV(~a.b) ELSE NoValue

\* the operands of a binary operator left as they are
unify_operands_never(v1, v2) == << v1, v2 >>

\* the operands of a binary operator as the walks up the superclass links
\* leave them: of two class-typed operands, the one whose class is a
\* descendant of the other's is wrapped again with the ancestor's type
unify_operands(v1, v2) ==
    IF IsClassType(v1.type) /\ IsClassType(v2.type)
    THEN IF WalkUp(v1.type, v2.type) = v2.type
         THEN << ObjV(v2.type, v1.o), v2 >>
         ELSE IF WalkUp(v2.type, v1.type) = v1.type
         THEN << v1, ObjV(v1.type, v2.o) >>
         ELSE << v1, v2 >>
    ELSE << v1, v2 >>

\* which table of binary_ops serves the two operands, "" when none does
operator_table(v1, v2) ==
    IF v1.type = v2.type /\ v1.type \in {"INT", "STRING", "BOOL"} THEN v1.type
    ELSE IF \/ v1.type = v2.type
            \/ v2.type = "CLASS" /\ IsClassType(v1.type)
            \/ v1.type = "CLASS" /\ IsClassType(v2.type)
    THEN "CLASS"
    ELSE ""

\* __evaluate_expression returned None: the expression was neither a leaf
\* nor an operator with a result, a call or a new
Absent(cs, os, me) == [st |-> "none", cells |-> cs, objs |-> os, ref |-> NoRef, me |-> me]

\* a method of the Value object the evaluator returned is called (type(),
\* value()): Python raises AttributeError when it returned None
dereferenced(v) ==
    IF v.st = "none"
    THEN Bad(Error("AttributeError", "'NoneType' object has no attribute", NoLine, ""))
    ELSE v

\* the binary operator applied to the Value objects of its operands
apply_binary(cs, os, operator, v1, v2, me, line) ==
    LET table == operator_table(v1, v2) IN
    IF table = ""
    THEN Bad(Error("TYPE_ERROR", "operator applied to two incompatible types",
                   line, operator))
    ELSE IF binary_ops(table, operator, IntV(1), IntV(1)) = NoValue
    THEN Bad(Error("TYPE_ERROR", "invalid operator applied", line, operator))
    ELSE IF table = "INT" /\ operator \in {"/", "%"} /\ v2.i = 0
    THEN Bad(Error("ZeroDivisionError", "integer division or modulo by zero",
                   NoLine, operator))
    ELSE LET r == Fresh(cs, os, binary_ops(table, operator, v1, v2))
         IN IF r.st = "ok" THEN [r EXCEPT !.me = me] ELSE r

\* the unary operator applied to the Value object of its operand: there is
\* no result for an operand that is not a BOOL
apply_unary(cs, os, operator, v, me, line) ==
    IF v.type = "BOOL"
    THEN IF unary_ops(operator, v) = NoValue
         THEN Bad(Error("TYPE_ERROR", "invalid unary operator applied to bool",
                        line, operator))
         ELSE LET r == Fresh(cs, os, unary_ops(operator, v))
              IN IF r.st = "ok" THEN [r EXCEPT !.me = me] ELSE r
    ELSE Absent(cs, os, me)

\* ObjectDef.__evaluate_expression, for a leaf, for an operator applied to
\* expressions and for (new classname)
RECURSIVE evaluate_expression(_, _, _, _, _)
evaluate_expression(cs, os, a, expr, line) ==
    IF expr.op = "leaf"
    THEN IF env_get(a.env, expr.tok) # NoRef
         THEN Ok(cs, os, env_get(a.env, expr.tok))
         ELSE IF expr.tok \in DOMAIN os[a.self].fields
         THEN Ok(cs, os, os[a.self].fields[expr.tok])
         ELSE IF expr.tok = "me"
         THEN MeValue(cs, os, a)
         ELSE IF create_value(expr.tok, "CLASS") # NoValue
         THEN Fresh(cs, os, create_value(expr.tok, "CLASS"))
         ELSE Bad(Error("NAME_ERROR", "invalid field or parameter", line, expr.tok))
    ELSE IF expr.op \in binary_op_list
    THEN LET second(o1, o2) ==
                 IF o2.st \in {"err", "full"} THEN o2
                 ELSE IF o1.st = "none" \/ o2.st = "none"
                 THEN dereferenced(Absent(cs, os, {}))
                 ELSE apply_binary(o2.cells, o2.objs, expr.op,
                                   unify_operands(o2.cells[o1.ref], o2.cells[o2.ref])[1],
                                   unify_operands(o2.cells[o1.ref], o2.cells[o2.ref])[2],
                                   o1.me \cup o2.me, line)
             first(o1) ==
                 IF o1.st \in {"err", "full"} THEN o1
                 ELSE second(o1, evaluate_expression(o1.cells, o1.objs, a, expr.rhs, line))
         IN first(evaluate_expression(cs, os, a, expr.lhs, line))
    ELSE IF expr.op \in unary_op_list
    THEN LET applied(o1) ==
                 IF o1.st \in {"err", "full"} THEN o1
                 ELSE IF o1.st = "none" THEN dereferenced(o1)
                 ELSE apply_unary(o1.cells, o1.objs, expr.op, o1.cells[o1.ref], o1.me, line)
         IN applied(evaluate_expression(cs, os, a, expr.lhs, line))
    ELSE execute_new_aux(cs, os, expr.tok, line)

\* ObjectDef.__set_variable_aux: the heap and the environment after the
\* assignment of the Value object ref to var_name
Assigned(cs, os, env) == [st |-> "ok", cells |-> cs, objs |-> os, env |-> env]

set_variable_aux(cs, os, a, var_name, ref, line) ==
    IF cs[ref].type = "NOTHING"
    THEN Bad(Error("TYPE_ERROR", "can't assign to nothing", line, var_name))
    ELSE IF env_get(a.env, var_name) # NoRef
    THEN LET c == check_type_and_value(cs[env_get(a.env, var_name)].type, cs[ref], FALSE)
         IN IF ~c.ok THEN Bad(CheckError(c, "set"))
            ELSE Assigned([cs EXCEPT ![ref] = c.val], os, env_set(a.env, var_name, ref))
    ELSE IF var_name \notin DOMAIN os[a.self].fields
    THEN Bad(Error("NAME_ERROR", "unknown variable", line, var_name))
    ELSE LET c == check_type_and_value(cs[os[a.self].fields[var_name]].type, cs[ref], FALSE)
         IN IF ~c.ok THEN Bad(CheckError(c, "set"))
            ELSE Assigned([cs EXCEPT ![ref] = c.val],
                          [os EXCEPT ![a.self].fields[var_name] = ref], a.env)

\* ------------------------------------------------------------------ statements
Active == err = NoErr /\ stack # << >> /\ steps < MaxSteps
AtCondition == Top.ctx # << >> /\ Last(Top.ctx) = "cond"
Running == Active /\ Top.status = "run" /\ ~AtCondition

\* compound statements open in all the activations together
RECURSIVE Open(_)
Open(st) == IF st = << >> THEN 0 ELSE Len(Last(st).ctx) + Open(Front(st))

\* the innermost statement has completed with STATUS_PROCEED: an enclosing
\* if returns with it, an enclosing while goes back to its condition, an
\* enclosing begin or let goes on, and the method body is over at the top
RECURSIVE Proceed(_)
Proceed(a) ==
    IF a.ctx = << >> THEN [a EXCEPT !.status = "done"]
    ELSE IF Last(a.ctx) = "if" THEN Proceed([a EXCEPT !.ctx = Front(a.ctx)])
    ELSE IF Last(a.ctx) = "while" THEN [a EXCEPT !.ctx = Append(Front(a.ctx), "cond")]
    ELSE a

\* the run ends with the error e: nothing of the interpreter is left
Fail(e) ==
    /\ err' = [e EXCEPT !.stmt = line_num(stack)]
    /\ cells' = [c \in Cells |-> FreeCell]
    /\ objs' = [o \in Objs |-> NoObject]
    /\ stack' = << >>
    /\ steps' = 0
    /\ last' = Nothing
    /\ UNCHANGED load

Commit(cs, os, st, me) ==
    /\ cells' = Collect(cs, os, st)
    /\ objs' = os
    /\ stack' = st
    /\ steps' = steps + 1
    /\ last' = Did(me, Top.self, MostDerived(objs, Top.self), NoReturn)
    /\ UNCHANGED <<err, load>>

SetTop(a) == [stack EXCEPT ![Len(stack)] = a]

\* the step that leaves the innermost compound statement with a status
Leave(st, status) ==
    /\ cells' = Collect(cells, objs, st)
    /\ stack' = st
    /\ steps' = steps + 1
    /\ last' = Left(Last(Top.ctx), status)
    /\ UNCHANGED <<objs, err, load>>

\* (set varname expression)
execute_set(var_name, expr) ==
    /\ Running
    /\ LET assigned(v, r) ==
               IF r.st = "err" THEN Fail(r.e)
               ELSE Commit(r.cells, r.objs, SetTop(Proceed([Top EXCEPT !.env = r.env])), v.me)
           evaluated(v) ==
               /\ v.st # "full"
               /\ IF v.st = "err" THEN Fail(v.e)
                  ELSE assigned(v, set_variable_aux(v.cells, v.objs, Top, var_name, v.ref,
                                                    line_num(stack)))
       IN evaluated(dereferenced(evaluate_expression(cells, objs, Top, expr,
                                                      line_num(stack))))

\* (inputi var) and (inputs var): the line read is wrapped as INT or STRING
execute_input(var_name, get_string, inp) ==
    /\ Running
    /\ LET assigned(r) ==
               IF r.st = "err" THEN Fail(r.e)
               ELSE Commit(r.cells, r.objs, SetTop(Proceed([Top EXCEPT !.env = r.env])), {})
           read(v) ==
               /\ v.st # "full"
               /\ assigned(set_variable_aux(v.cells, v.objs, Top, var_name, v.ref,
                                            line_num(stack)))
       IN read(Fresh(cells, objs, IF get_string THEN StrV(inp) ELSE IntV(IntOf(inp))))

\* (begin statement ...): the statements of the block come next
execute_begin ==
    /\ Running
    /\ Open(stack) < MaxNest
    /\ Commit(cells, objs, SetTop([Top EXCEPT !.ctx = Append(@, "begin")]), {})

\* the bindings of (let ((type name literal) ...) ...): the frame built so
\* far, or the error of the first binding that is refused
RECURSIVE let_bindings(_, _, _, _)
let_bindings(cs, os, locals, new_env) ==
    IF locals = << >> THEN Assigned(cs, os, new_env)
    ELSE LET bound(v) ==
                 IF v.st = "full" THEN Full
                 ELSE let_bindings(v.cells, os, Tail(locals),
                                   [n \in DOMAIN new_env \cup {locals[1].name} |->
                                      IF n = locals[1].name THEN v.ref ELSE new_env[n]])
             checked(type, c) ==
                 IF type = "TypeError"
                 THEN Bad(Error("TYPE_ERROR", "invalid type name", NoLine, locals[1].type))
                 ELSE IF ~c.ok THEN Bad(CheckError(c, "let"))
                 ELSE IF locals[1].name \in DOMAIN new_env
                 THEN Bad(Error("NAME_ERROR", "duplicate let params", NoLine, locals[1].name))
                 ELSE bound(Fresh(cs, os, c.val))
         IN checked(get_type(locals[1].type),
                    check_type_and_value(get_type(locals[1].type),
                                         create_value(locals[1].lit, "CLASS"), FALSE))

\* (let (locals) statement ...): the frame is pushed, the body comes next
execute_let(locals) ==
    /\ Running
    /\ Open(stack) < MaxNest
    /\ LET entered(r) ==
               /\ r.st # "full"
               /\ IF r.st = "err" THEN Fail(r.e)
                  ELSE Commit(r.cells, r.objs,
                              SetTop([Top EXCEPT !.env = add_env(@, r.env),
                                                 !.ctx = Append(@, "let")]), {})
       IN entered(let_bindings(cells, objs, locals, EmptyFrame))

\* the end of the statements of a begin or let: STATUS_PROCEED
block_end ==
    /\ Running
    /\ Top.ctx # << >>
    /\ Last(Top.ctx) \in {"begin", "let"}
    /\ Leave(SetTop(Proceed([Top EXCEPT
                  !.env = IF Last(Top.ctx) = "let" THEN remove_env(@) ELSE @,
                  !.ctx = Front(@)])), "proceed")

\* (if expression statement [statement]): the branch taken comes next; with
\* a false condition and no else branch the statement is over
execute_if(expr, has_else) ==
    /\ Running
    /\ Open(stack) < MaxNest
    /\ LET tested(v) ==
               /\ v.st # "full"
               /\ IF v.st = "err" THEN Fail(v.e)
                  ELSE IF v.cells[v.ref].type # "BOOL"
                  THEN Fail(Error("TYPE_ERROR", "non-boolean if condition",
                                  line_num(stack), ""))
                  ELSE IF v.cells[v.ref].b \/ has_else
                  THEN Commit(v.cells, v.objs,
                              SetTop([Top EXCEPT !.ctx = Append(@, "if")]), v.me)
                  ELSE Commit(v.cells, v.objs, SetTop(Proceed(Top)), v.me)
       IN tested(dereferenced(evaluate_expression(cells, objs, Top, expr,
                                                   line_num(stack))))

\* one evaluation of the condition of (while expression statement): at the
\* start of the statement (enter) or after its body has run
execute_while(expr, enter) ==
    /\ IF enter THEN Running /\ Open(stack) < MaxNest
       ELSE Active /\ Top.status = "run" /\ AtCondition
    /\ LET tested(out, v) ==
               /\ v.st # "full"
               /\ IF v.st = "err" THEN Fail(v.e)
                  ELSE IF v.cells[v.ref].type # "BOOL"
                  THEN Fail(Error("TYPE_ERROR", "non-boolean while condition",
                                  line_num(stack), ""))
                  ELSE IF v.cells[v.ref].b
                  THEN Commit(v.cells, v.objs,
                              SetTop([out EXCEPT !.ctx = Append(@, "while")]), v.me)
                  ELSE Commit(v.cells, v.objs, SetTop(Proceed(out)), v.me)
       IN tested(IF enter THEN Top ELSE [Top EXCEPT !.ctx = Front(@)],
                 dereferenced(evaluate_expression(cells, objs, Top, expr,
                                                  line_num(stack))))

\* (return) and (return expression)
execute_return(bare, expr) ==
    /\ Running
    /\ LET returned(v) ==
               /\ v.st # "full"
               /\ IF v.st = "err" THEN Fail(v.e)
                  ELSE Commit(v.cells, v.objs,
                              SetTop([Top EXCEPT !.status = "ret", !.rv = v.ref]), v.me)
       IN returned(IF bare THEN Fresh(cells, objs, create_value("nothing", "CLASS"))
                   ELSE evaluate_expression(cells, objs, Top, expr, line_num(stack)))

\* STATUS_RETURN reaches the innermost enclosing compound statement, which
\* returns it in turn; a let removes its frame first
return_propagates ==
    /\ Active
    /\ Top.status = "ret"
    /\ Top.ctx # << >>
    /\ Leave(SetTop([Top EXCEPT
                  !.env = IF Last(Top.ctx) = "let" THEN remove_env(@) ELSE @,
                  !.ctx = Front(@)]), "return")

\* ------------------------------------------------------------------ calls
MethodsNamed(c, m) == {mi \in Range(Prog[c].methods) : mi.method_name = m}
\* self.methods[method_name] of an object of class c
method_info(c, m) == CHOOSE mi \in MethodsNamed(c, m) : TRUE

NotFound(msg) == [found |-> FALSE, msg |-> msg]
Found(o, first) == [found |-> TRUE, self |-> o, first_obj |-> first]

\* the search for the method with the number of arguments not looked at
RECURSIVE find_method_any_arity(_, _, _, _, _)
find_method_any_arity(os, o, m, k, first) ==
    IF MethodsNamed(os[o].cls, m) # {} THEN Found(o, first)
    ELSE IF os[o].super_obj = NoObj THEN NotFound("unknown method")
    ELSE find_method_any_arity(os, os[o].super_obj, m, k,
                               IF first # NoObj THEN first ELSE o)

\* call_method up to the point where the method is found: the object whose
\* class defines method_name with k formals, reached through the super_obj
\* links, and the first_obj handed on to it
RECURSIVE find_method(_, _, _, _, _)
find_method(os, o, m, k, first) ==
    IF MethodsNamed(os[o].cls, m) # {} /\ k = Len(method_info(os[o].cls, m).formal_params)
    THEN Found(o, first)
    ELSE IF os[o].super_obj # NoObj
    THEN find_method(os, os[o].super_obj, m, k, IF first # NoObj THEN first ELSE o)
    ELSE NotFound(IF MethodsNamed(os[o].cls, m) = {} THEN "unknown method"
                  ELSE "invalid number of parameters")

\* the loop of call_method over zip(formal_params, actual_params)
RECURSIVE bind_formals(_, _, _, _, _, _)
bind_formals(cs, os, formals, refs, env_dict, line) ==
    IF formals = << >> \/ refs = << >> THEN Assigned(cs, os, env_dict)
    ELSE IF get_type(formals[1].type) # "TypeError" /\ refs[1] = NoRef
    THEN dereferenced(Absent(cs, os, {}))
    ELSE LET checked(type, c) ==
                 IF type = "TypeError"
                 THEN Bad(Error("TYPE_ERROR", "invalid type name", NoLine, formals[1].type))
                 ELSE IF ~c.ok THEN Bad(CheckError(c, "param"))
                 ELSE IF formals[1].name \in DOMAIN env_dict
                 THEN Bad(Error("NAME_ERROR", "duplicate formal param", line, formals[1].name))
                 ELSE bind_formals([cs EXCEPT ![refs[1]] = c.val], os,
                                   Tail(formals), Tail(refs),
                                   [n \in DOMAIN env_dict \cup {formals[1].name} |->
                                      IF n = formals[1].name THEN refs[1] ELSE env_dict[n]],
                                   line)
         IN checked(get_type(formals[1].type),
                    check_type_and_value(get_type(formals[1].type), cs[refs[1]], TRUE))

\* the argument expressions, evaluated left to right
RECURSIVE evaluate_args(_, _, _, _, _, _, _)
evaluate_args(cs, os, a, args, line, refs, me) ==
    IF args = << >>
    THEN [st |-> "ok", cells |-> cs, objs |-> os, refs |-> refs, me |-> me]
    ELSE LET evaluated(v) ==
                 IF v.st \in {"err", "full"} THEN v
                 ELSE evaluate_args(v.cells, v.objs, a, Tail(args), line,
                                    Append(refs, v.ref), me \cup v.me)
         IN evaluated(evaluate_expression(cs, os, a, Head(args), line))

\* the first_obj a call of the activation a passes on: a call that is the
\* statement of the method body passes the first_obj of the activation or
\* else its object; a call anywhere else passes none
passed_first_obj(a, form) ==
    IF form = "stmt" /\ a.ctx = << >>
    THEN IF a.first_obj # NoObj THEN a.first_obj ELSE a.self
    ELSE NoObj

\* the receiver expressions of the programs considered: a name, or a new
receiver(recv) ==
    CASE recv = "(new A)" -> New("A")
      [] recv = "(new B)" -> New("B")
      [] OTHER -> Leaf(recv)

\* a call on a receiver whose payload is None made on the caller's own object
call_object_self_for_null(os, a, recv, first, val) ==
    IF recv = "me" THEN IF first # NoObj THEN first ELSE a.self
    ELSE IF recv = "super" THEN os[a.self].super_obj
    ELSE IF val.o = NoObj THEN a.self
    ELSE val.o

\* the object of the call: `me`, `super`, or the payload of the receiver expression
call_object(os, a, recv, first, val) ==
    IF recv = "me" THEN IF first # NoObj THEN first ELSE a.self
    ELSE IF recv = "super" THEN os[a.self].super_obj
    ELSE val.o

\* the receiver is `me`, `super` or an expression whose payload is an object
\* or None (the payload of another value has no call_method)
is_reference(recv, val) ==
    IF recv \in {"me", "super"} THEN TRUE
    ELSE IsClassType(val.type) \/ val.type = "CLASS"

\* (call receiver method_name argument ...), as a statement (form "stmt"),
\* as the expression of a set of pvar (form "set") or of a return (form
\* "ret"): __execute_call_aux, and call_method up to the body of the method
execute_call(form, pvar, recv, m, args) ==
    /\ Running
    /\ Len(stack) < MaxDepth
    /\ LET bound(obj, av, d, b) ==
               IF b.st = "err" THEN Fail(b.e)
               ELSE Commit(b.cells, b.objs,
                           Append(SetTop([Top EXCEPT !.pend = form, !.pvar = pvar]),
                                  Activation(d.self, d.first_obj, obj, m,
                                             [i \in 1 .. Len(args) |-> av.cells[av.refs[i]]],
                                             b.env)),
                           av.me)
           found(obj, av, d) ==
               IF ~d.found
               THEN Fail([Error("NAME_ERROR", d.msg, line_num(stack), m) EXCEPT
                            !.recv = av.objs[obj].cls, !.nargs = Len(args)])
               ELSE bound(obj, av, d,
                          bind_formals(av.cells, av.objs,
                                       method_info(av.objs[d.self].cls, m).formal_params,
                                       av.refs, EmptyFrame, line_num(stack)))
           passed(obj, av) ==
               /\ av.st # "full"
               /\ IF av.st = "err" THEN Fail(av.e)
                  ELSE found(obj, av, find_method(av.objs, obj, m, Len(args),
                                                  passed_first_obj(Top, form)))
           called(rv, obj) ==
               IF obj = NoObj
               THEN Fail(Error("FAULT_ERROR", "null dereference", line_num(stack), ""))
               ELSE passed(obj, evaluate_args(rv.cells, rv.objs, Top, args, line_num(stack),
                                              << >>, IF recv = "me" THEN {obj} ELSE {}))
           received(rv, val) ==
               /\ is_reference(recv, val)
               /\ called(rv, call_object(objs, Top, recv, passed_first_obj(Top, form), val))
           evaluated(rv) ==
               /\ rv.st # "full"
               /\ IF rv.st = "err" THEN Fail(rv.e)
                  ELSE received(rv, IF rv.ref = NoRef THEN NoValue ELSE rv.cells[rv.ref])
       IN evaluated(IF recv \in {"me", "super"} THEN Ok(cells, objs, NoRef)
                    ELSE dereferenced(evaluate_expression(cells, objs, Top, receiver(recv),
                                                          line_num(stack))))

\* the value call_method returns when the body returned none
default_return(return_type) ==
    IF return_type = "INT" THEN create_value("0", "CLASS")
    ELSE IF return_type = "BOOL" THEN create_value("false", "CLASS")
    ELSE IF return_type = "STRING" THEN create_value("\"\"", "CLASS")
    ELSE IF IsClassType(return_type) THEN create_value("null", "CLASS")
    ELSE create_value("nothing", "CLASS")

\* what the caller does with the value of the call it was waiting for
deliver(cs, os, caller, ref, line) ==
    IF caller.pend = "stmt"
    THEN Assigned(cs, os, Proceed([caller EXCEPT !.pend = "none"]))
    ELSE IF caller.pend = "ret"
    THEN Assigned(cs, os, [caller EXCEPT !.pend = "none", !.status = "ret", !.rv = ref])
    ELSE LET assigned(r) ==
                 IF r.st = "err" THEN r
                 ELSE Assigned(r.cells, r.objs,
                               Proceed([caller EXCEPT !.pend = "none", !.pvar = "",
                                                      !.env = r.env]))
         IN assigned(set_variable_aux(cs, os, caller, caller.pvar, ref, line))

\* the method's return type, and whether its body returned a value
ReturnType(a) == get_type(method_info(objs[a.self].cls, a.method_name).return_type)
Explicit(a) == a.status = "ret" /\ a.rv # NoRef /\ cells[a.rv].type # "NOTHING"

\* call_method after the body: the returned value is checked against the
\* return type, or the default is made, and the caller goes on with it
method_end ==
    /\ Active
    /\ Top.ctx = << >>
    /\ Top.status \in {"done", "ret"}
    /\ LET went_on(st, c, o, ret) ==
               /\ cells' = Collect(c, o, st)
               /\ objs' = o
               /\ stack' = st
               /\ steps' = steps + 1
               /\ last' = Did({}, NoObj, NoObj, ret)
               /\ UNCHANGED <<err, load>>
           delivered(r, ret) ==
               IF r.st = "err" THEN Fail(r.e)
               ELSE went_on(Append(Front(Front(stack)), r.env), r.cells, r.objs, ret)
           returned(res, ret) ==
               IF Len(stack) = 1 THEN went_on(<< >>, res.cells, res.objs, ret)
               ELSE delivered(deliver(res.cells, res.objs, stack[Len(stack) - 1], res.ref,
                                      line_num(Front(stack))), ret)
           made(res) ==
               /\ res.st # "full"
               /\ IF res.st = "err" THEN Fail(res.e)
                  ELSE returned(res, [type |-> ReturnType(Top), default |-> ~Explicit(Top),
                                      val |-> res.cells[res.ref]])
           checked(c) ==
               made(IF ~c.ok THEN Bad(CheckError(c, "return"))
                    ELSE Ok([cells EXCEPT ![Top.rv] = c.val], objs, Top.rv))
       IN IF Explicit(Top)
          THEN checked(check_type_and_value(ReturnType(Top), cells[Top.rv], FALSE))
          ELSE made(Fresh(cells, objs, default_return(ReturnType(Top))))

\* ------------------------------------------------- programs over classes
NamesT == {"fb", "fa", "q", "x"}
ExprsT == {Leaf(n) : n \in {"fb", "fa", "q", "me", "1", "null"}} \cup {New("A")}
CallsT == {<<"n", <<Leaf("fb")>> >>, <<"n", <<Leaf("fa")>> >>, <<"n", <<Leaf("me")>> >>,
           <<"n", <<Leaf("null")>> >>, <<"n", <<Leaf("1")>> >>,
           <<"m", <<Leaf("\"s\"")>> >>, <<"m", <<Leaf("fb")>> >>}
LetsT == {<<Field("A", "y", "null")>>, <<Field("int", "y", "true")>>}

Next ==
    \/ \E n \in NamesT, e \in ExprsT : execute_set(n, e)
    \/ \E n \in {"x", "fa"} : execute_input(n, FALSE, "1")
    \/ execute_begin
    \/ \E l \in LetsT : execute_let(l)
    \/ block_end
    \/ execute_return(TRUE, Leaf("nothing"))
    \/ \E e \in {Leaf("1"), Leaf("q")} : execute_return(FALSE, e)
    \/ return_propagates
    \/ \E r \in {"me", "fa"}, c \in CallsT : execute_call("stmt", "", r, c[1], c[2])
    \/ method_end

Spec == Init /\ [][Next]_vars

\* ------------------------------------------------- programs over dispatch
Call(form, recv, m, args) == [form |-> form, recv |-> recv, m |-> m, args |-> args]
CallsD ==
    {Call("stmt", r, "m", <<Leaf("1")>>) : r \in {"me", "super"}}
    \cup {Call("stmt", "me", "m", a) : a \in {<< >>, <<Leaf("1"), Leaf("1")>>}}
    \cup {Call("stmt", "me", m, << >>) : m \in {"k", "s", "t", "z"}}
    \cup {Call("stmt", "me", "n", <<Leaf("me")>>)}
    \cup {Call("ret", r, "s", << >>) : r \in {"me", "super"}}
    \cup {Call("ret", "me", "k", << >>)}

NextDispatch ==
    \/ \E c \in CallsD : execute_call(c.form, "", c.recv, c.m, c.args)
    \/ method_end
    \/ \E n \in {"x", "fb"}, e \in {Leaf("1"), Leaf("me")} : execute_set(n, e)
    \/ execute_begin
    \/ execute_let(<<Field("int", "y", "1")>>)
    \/ block_end
    \/ \E h \in BOOLEAN : execute_if(Leaf("true"), h)
    \/ \E b \in BOOLEAN : execute_while(Leaf("true"), b)
    \/ execute_return(TRUE, Leaf("nothing"))
    \/ \E e \in {Leaf("me"), Leaf("x")} : execute_return(FALSE, e)
    \/ return_propagates

SpecDispatch == Init /\ [][NextDispatch]_vars

\* ------------------------------------------------------------ the loader
\* ClassDef.__create_field_list: the error of the first field that is
\* defined twice or whose default value its FieldDef refuses, if any
RECURSIVE create_field_list(_, _, _)
create_field_list(fields, fields_defined_so_far, line) ==
    IF fields = << >> THEN NoErr
    ELSE LET member == Head(fields)
             c == check_type_and_value(get_type(member.type),
                                       create_value(member.lit, "CLASS"), FALSE)
         IN IF member.name \in fields_defined_so_far
            THEN Error("NAME_ERROR", "duplicate field", line, member.name)
            ELSE IF get_type(member.type) = "TypeError"
            THEN Error("TYPE_ERROR", "invalid type name", NoLine, member.type)
            ELSE IF ~c.ok THEN CheckError(c, "field")
            ELSE create_field_list(Tail(fields), fields_defined_so_far \cup {member.name}, line)

\* ClassDef.__create_method_list: the error of the first method that is
\* defined twice or whose MethodDef has no return type, if any
RECURSIVE create_method_list(_, _, _)
create_method_list(methods, methods_defined_so_far, line) ==
    IF methods = << >> THEN NoErr
    ELSE LET member == Head(methods) IN
         IF member.method_name \in methods_defined_so_far
         THEN Error("NAME_ERROR", "duplicate method", line, member.method_name)
         ELSE IF get_type(member.return_type) = "TypeError"
         THEN Error("TYPE_ERROR", "invalid type name", NoLine, member.return_type)
         ELSE create_method_list(Tail(methods),
                                 methods_defined_so_far \cup {member.method_name}, line)

LoadFail(e) ==
    /\ err' = e
    /\ UNCHANGED <<cells, objs, stack, steps, last, load>>

Loading(pass) == err = NoErr /\ stack = << >> /\ load.pass = pass

\* what the loop of a pass goes on with after the item it is at
next_item(next_pass) ==
    IF load.at < Len(load.program) THEN [load EXCEPT !.at = @ + 1]
    ELSE [load EXCEPT !.at = 1, !.pass = next_pass]

\* __map_class_names_to_class_defs, one turn of its first loop
map_class_name ==
    /\ Loading("names")
    /\ LET item == load.program[load.at] IN
       IF item.name \in load.class_index
       THEN LoadFail(Error("TYPE_ERROR", "Duplicate class name", load.at, item.name))
       ELSE /\ load' = [next_item("defs") EXCEPT !.class_index = @ \cup {item.name}]
            /\ UNCHANGED <<cells, objs, stack, err, steps, last>>

\* __map_class_names_to_class_defs, one turn of its second loop: ClassDef(item)
create_class_def ==
    /\ Loading("defs")
    /\ LET item == load.program[load.at]
           f == create_field_list(item.fields, {}, load.at)
           m == create_method_list(item.methods, {}, load.at)
       IN IF f # NoErr THEN LoadFail(f)
          ELSE IF m # NoErr THEN LoadFail(m)
          ELSE /\ load' = next_item("run")
               /\ UNCHANGED <<cells, objs, stack, err, steps, last>>

\* the values of the k arguments of a call, in the first cells
ArgCells(k) == [c \in Cells |-> IF c <= k THEN IntV(1) ELSE FreeCell]

\* Interpreter.run from the instantiation of main on, for a main that calls
\* method m of an object of class c with k arguments, or calls nothing
run_main(calls, c, m, k) ==
    /\ Loading("run")
    /\ LET done == /\ load' = [load EXCEPT !.pass = "done"]
                   /\ UNCHANGED <<cells, objs, stack, err, steps, last>>
           items == {i \in Range(load.program) : i.name = c}
           item == CHOOSE i \in items : TRUE
           named == {mi \in Range(item.methods) : mi.method_name = m}
           method_info_ == CHOOSE mi \in named : TRUE
           b == bind_formals(ArgCells(k), objs, method_info_.formal_params,
                             [i \in 1 .. k |-> i], EmptyFrame, NoLine)
       IN IF ~calls THEN done
          ELSE /\ items # {}
               /\ IF named = {}
                  THEN LoadFail(Error("NAME_ERROR", "unknown method", NoLine, m))
                  ELSE IF Len(method_info_.formal_params) # k
                  THEN LoadFail(Error("NAME_ERROR", "invalid number of parameters", NoLine, m))
                  ELSE IF b.st = "err" THEN LoadFail(b.e)
                  ELSE done

\* the programs loaded: class main, and a class A or a second class main
FieldLists ==
    {<< >>, << Field("int", "x", "0") >>, << Field("int", "x", "true") >>,
     << Field("int", "x", "0"), Field("int", "x", "1") >>}
MainMethods ==
    {<< Method("void", "main", << >>) >>,
     << Method("void", "main", << >>), Method("void", "main", << >>) >>}
OtherMethods ==
    {<< >>, << Method("int", "f", << Formal("int", "p") >>) >>,
     << Method("int", "f", << Formal("int", "p"), Formal("int", "p") >>) >>,
     << Method("int", "f", << Formal("int", "p") >>),
        Method("void", "f", << Formal("int", "p") >>) >>}
MainItems ==
    {[name |-> "main", superclass |-> NoClass, fields |-> f, methods |-> m] :
        f \in FieldLists, m \in MainMethods}
OtherItems ==
    MainItems \cup
    {[name |-> "A", superclass |-> NoClass, fields |-> f, methods |-> m] :
        f \in FieldLists, m \in OtherMethods}
Programs == {<< i, o >> : i \in MainItems, o \in OtherItems}

InitLoad ==
    /\ load \in {[program |-> p, pass |-> "names", at |-> 1, class_index |-> {}] :
                    p \in Programs}
    /\ cells = [c \in Cells |-> FreeCell]
    /\ objs = [o \in Objs |-> NoObject]
    /\ stack = << >>
    /\ err = NoErr
    /\ steps = 0
    /\ last = Nothing

NextLoad ==
    \/ map_class_name
    \/ create_class_def
    \/ run_main(FALSE, "A", "f", 0)
    \/ \E k \in 1 .. 2 : run_main(TRUE, "A", "f", k)

SpecLoad == InitLoad /\ [][NextLoad]_vars

\* --------------------------------------------------- programs over scopes
LetsS == {<<Field("int", "y", "1")>>, <<Field("int", "x", "2")>>,
          <<Field("int", "y", "1"), Field("bool", "b", "true")>>,
          <<Field("int", "y", "1"), Field("int", "y", "2")>>}

NextScope ==
    \/ \E l \in LetsS : execute_let(l)
    \/ execute_begin
    \/ block_end
    \/ \E e \in {Leaf("true"), Leaf("false"), Leaf("b")}, h \in BOOLEAN : execute_if(e, h)
    \/ \E e \in {Leaf("true"), Leaf("false"), Leaf("b")}, b \in BOOLEAN : execute_while(e, b)
    \/ \E n \in {"x", "y", "b"}, e \in {Leaf("1"), Leaf("y"), Leaf("false")} : execute_set(n, e)
    \/ execute_return(TRUE, Leaf("nothing"))
    \/ \E e \in {Leaf("y"), Leaf("x")} : execute_return(FALSE, e)
    \/ return_propagates
    \/ execute_call("stmt", "", "me", "m", <<Leaf("1")>>)
    \/ method_end

SpecScope == Init /\ [][NextScope]_vars

\* ------------------------------------------------ programs over receivers
CallsR ==
    {Call("stmt", r, "n", <<Leaf("zz")>>) : r \in {"fa", "me"}}
    \cup {Call(f, "fa", "s", << >>) : f \in {"stmt", "ret"}}
    \cup {Call("stmt", "fb", "m", <<New("A")>>)}
    \cup {Call("stmt", r, "s", << >>) : r \in {"(new A)", "me"}}
    \cup {Call("stmt", "me", "t", << >>)}

NextReceiver ==
    \/ \E c \in CallsR : execute_call(c.form, "", c.recv, c.m, c.args)
    \/ method_end
    \/ execute_set("fa", New("A"))
    \/ execute_begin
    \/ block_end
    \/ execute_return(TRUE, Leaf("nothing"))
    \/ return_propagates

SpecReceiver == Init /\ [][NextReceiver]_vars

\* ------------------------------------------------ programs over operators
LetsO == {<<Field("int", "i", "0")>>, <<Field("bool", "b", "false")>>,
          <<Field("C", "c", "null")>>}
ClassOperands == {Leaf("fa"), Leaf("fb"), Leaf("c"), Leaf("me"), Leaf("null")}
Quotients == {Binary("/", Leaf(a), Leaf(b)) : a \in {"7", "-7"}, b \in {"2", "-7", "0"}}
Comparisons == {Binary(o, e1, e2) : o \in {"==", "!="}, e1 \in ClassOperands,
                                    e2 \in ClassOperands}
Negations == {Unary("!", Leaf(t)) : t \in {"b", "true", "1", "\"s\"", "fa", "nothing"}}

NextOperators ==
    \/ \E l \in LetsO : execute_let(l)
    \/ \E e \in {New("A"), Leaf("fb"), Leaf("c")} : execute_set("fa", e)
    \/ execute_set("fb", Leaf("me"))
    \/ \E e \in Quotients : execute_set("i", e)
    \/ \E e \in Comparisons \cup Negations : execute_set("b", e)
    \/ \E e \in Negations : execute_return(FALSE, e)
    \/ block_end
    \/ return_propagates
    \/ method_end

SpecOperators == Init /\ [][NextOperators]_vars

\* ------------------------------------------------------------------ claims
\* a Value that a variable declared with type_name may hold: of the same
\* primitive type, or of that class or a subclass of it, and then null or an
\* object of that class or of a subclass
Compatible(type_name, val, os) ==
    IF IsClassType(get_type(type_name))
    THEN /\ val.type = "CLASS" \/ IsClassType(val.type)
         /\ val.o = NoObj \/ WalkUp(os[val.o].cls, type_name) = type_name
    ELSE val.type = get_type(type_name)

FormalsOf(a) == method_info(objs[a.self].cls, a.method_name).formal_params

\* C1: every field of every object, and every formal parameter of every
\* activation, holds a value compatible with the type it was declared with
C1_TypeSoundness ==
    err = NoErr =>
        /\ \A o \in Objs : objs[o] # NoObject =>
              \A n \in DOMAIN objs[o].fields :
                  Compatible(FieldOf(objs[o].cls, n).type, cells[objs[o].fields[n]], objs)
        /\ \A i \in DOMAIN stack : \A j \in DOMAIN FormalsOf(stack[i]) :
              LET f == FormalsOf(stack[i])[j]
              IN f.name \in DOMAIN stack[i].env[1] =>
                    Compatible(f.type, cells[stack[i].env[1][f.name]], objs)

\* an activation call_method has just made: no statement of the body has run
JustCalled == err = NoErr /\ stack # << >> /\ Len(stack) > 1 /\ Top.status = "run"
              /\ Top.ctx = << >> /\ Top.pend = "none" /\ last.ret = NoReturn
              /\ Len(Top.env) = 1

C9_DefaultsIntact ==
    err = NoErr =>
        \A c \in DOMAIN FieldDefs :
            cells[c] = FieldDefInit(FieldDefs[c].cls, FieldDefs[c].name)

\* C10: a mismatch between an argument and its formal is a NAME_ERROR, and a
\* mismatch in a set, a let or a return is a TYPE_ERROR
C10_MismatchKinds ==
    /\ err.pos = "param" => err.kind = "NAME_ERROR"
    /\ err.pos \in {"set", "let", "return"} => err.kind = "TYPE_ERROR"

\* --------------------------------------------------------------- dispatch
\* C2: whenever a statement or expression of a method body uses `me`, it
\* stands for the most-derived object the method was dispatched on, also in
\* a body that runs in the super-object of an ancestor class
C2_MeStable ==
    (last.me # {} /\ last.owner # last.want) => last.me = {last.want}

\* the first object from o up the super_obj links whose class has a method
\* m with k formal parameters
RECURSIVE Defining(_, _, _, _)
Defining(os, o, m, k) ==
    IF o = NoObj THEN NoObj
    ELSE IF \E mi \in MethodsNamed(os[o].cls, m) : Len(mi.formal_params) = k THEN o
    ELSE Defining(os, os[o].super_obj, m, k)

\* the same over the classes: from class c up the superclass links
RECURSIVE DefiningClass(_, _, _)
DefiningClass(c, m, k) ==
    IF c = NoClass THEN NoClass
    ELSE IF \E mi \in MethodsNamed(c, m) : Len(mi.formal_params) = k THEN c
    ELSE DefiningClass(Superclass(c), m, k)

\* C3: the body a call of m with k arguments runs is that of the first class
\* from the class of the object called upwards that has a method m with k
\* formals; when there is none the call is a NAME_ERROR at the call's line
C3_DispatchRule ==
    /\ err = NoErr =>
          \A i \in DOMAIN stack :
              stack[i].self = Defining(objs, stack[i].recv, stack[i].method_name,
                                       Len(stack[i].actual_params))
    /\ err.msg \in {"unknown method", "invalid number of parameters"} =>
          /\ err.kind = "NAME_ERROR"
          /\ err.line = err.stmt
          /\ DefiningClass(err.recv, err.name, err.nargs) = NoClass
    /\ (err # NoErr /\ err.recv # NoClass) =>
          err.msg \in {"unknown method", "invalid number of parameters"}

\* a nearer class has m with another arity, and the ancestor's body runs
C3_Witness ==
    /\ err = NoErr /\ stack # << >>
    /\ objs[Top.recv].cls = "main" /\ objs[Top.self].cls = "A"
    /\ Top.method_name = "m" /\ Len(Top.actual_params) = 1
    /\ MethodsNamed("B", "m") # {}

\* the value call_method makes for a return type when the body gave none
DefaultOf(return_type) ==
    IF return_type = "INT" THEN IntV(0)
    ELSE IF return_type = "BOOL" THEN BoolV(FALSE)
    ELSE IF return_type = "STRING" THEN StrV("")
    ELSE IF IsClassType(return_type) THEN ObjV(return_type, NoObj)
    ELSE NothingV

\* C4: a method that ends without a returned value, or with a bare return,
\* returns the default of its return type: 0, false, the empty string, the
\* null of the class for a class type, nothing for void
C4_DefaultReturns ==
    last.ret.default => last.ret.val = DefaultOf(last.ret.type)

\* the activation runs a method of an ancestor class in its super-object
Inherited(a) == MostDerived(objs, a.self) # a.self

AllFieldNames == {FieldDefs[i].name : i \in DOMAIN FieldDefs}

\* C7: in a method that runs in the super-object of an ancestor class, a
\* name that is no local variable is read from, and written to, the field
\* map of that super-object and no other object's field changes; a name
\* that is not a field of it is a NAME_ERROR (for a value that is not nothing)
C7_FieldResolution ==
    (err = NoErr /\ stack # << >> /\ Inherited(Top)) =>
        \A n \in AllFieldNames : env_get(Top.env, n) = NoRef =>
            LET r == evaluate_expression(cells, objs, Top, Leaf(n), NoLine)
                Values == {v \in Cells : cells[v].type \notin {"Free", "NOTHING"}}
                w(v) == set_variable_aux(cells, objs, Top, n, v, NoLine)
            IN IF n \in DOMAIN objs[Top.self].fields
               THEN /\ r.st = "ok" /\ r.ref = objs[Top.self].fields[n]
                    /\ r.cells = cells /\ r.objs = objs
                    /\ \A v \in Values : w(v).st = "ok" =>
                          /\ w(v).objs[Top.self].fields[n] = v
                          /\ \A o \in Objs \ {Top.self} :
                                /\ w(v).objs[o] = objs[o]
                                /\ \A f \in DOMAIN objs[o].fields :
                                      w(v).cells[objs[o].fields[f]] = cells[objs[o].fields[f]]
               ELSE /\ r.st = "err" /\ r.e.kind = "NAME_ERROR"
                    /\ \A v \in Values : w(v).st = "err" /\ w(v).e.kind = "NAME_ERROR"

\* the inherited method has written its own x, and the x of the derived
\* object is still the one it was made with
C7_Witness ==
    /\ err = NoErr /\ stack # << >> /\ Inherited(Top)
    /\ \E d \in Objs :
          /\ objs[d] # NoObject /\ objs[d].super_obj = Top.self
          /\ "x" \in DOMAIN objs[d].fields /\ "x" \in DOMAIN objs[Top.self].fields
          /\ objs[Top.self].fields["x"] \notin DOMAIN FieldDefs
          /\ objs[d].fields["x"] \in DOMAIN FieldDefs

\* ------------------------------------------------------------------ scopes
RECURSIVE Lets(_)
Lets(ctx) ==
    IF ctx = << >> THEN 0
    ELSE Lets(Front(ctx)) + (IF Last(ctx) = "let" THEN 1 ELSE 0)

\* C5: the environment of every activation has one frame for the parameters
\* and one for each let it is inside, and the step that leaves a let, with
\* PROCEED or with RETURN, removes exactly the let's frame: the frames below
\* are the frames the let was entered with
C5_ScopeDiscipline ==
    [][/\ err' = NoErr =>
            \A i \in DOMAIN stack' : Len(stack'[i].env) = 1 + Lets(stack'[i].ctx)
       /\ last'.out.kind = "let" =>
            /\ Len(stack') = Len(stack)
            /\ stack'[Len(stack)].env = Front(Top.env)]_vars

\* a let inside another compound statement has been left with RETURN
C5_Witness ==
    /\ err = NoErr /\ stack # << >>
    /\ last.out = [kind |-> "let", status |-> "return"]
    /\ Top.status = "ret" /\ Top.ctx # << >>
    /\ Len(Top.env) = 1 + Lets(Top.ctx)

\* ------------------------------------------------------------- the loader
Twice(names) == \E i, j \in DOMAIN names : i < j /\ names[i] = names[j]
NamesOf(seq, field) == [i \in DOMAIN seq |-> seq[i][field]]
DuplicateClass(p) == Twice(NamesOf(p, "name"))
DuplicateMember(p) ==
    \E i \in DOMAIN p :
        \/ Twice(NamesOf(p[i].fields, "name"))
        \/ Twice(NamesOf(p[i].methods, "method_name"))
        \/ \E j \in DOMAIN p[i].methods : Twice(NamesOf(p[i].methods[j].formal_params, "name"))

\* C8: a program with a class defined twice stops with TYPE_ERROR in the
\* first pass; a program with a field, method or formal parameter defined
\* twice never runs to its end, and the error of each such definition is a
\* NAME_ERROR
C8_DefinitionUniqueness ==
    /\ DuplicateClass(load.program) =>
          /\ load.pass = "names"
          /\ err # NoErr => err.kind = "TYPE_ERROR" /\ err.msg = "Duplicate class name"
    /\ (~DuplicateClass(load.program) /\ DuplicateMember(load.program)) =>
          load.pass # "done"
    /\ err.msg \in {"duplicate field", "duplicate method", "duplicate formal param"} =>
          err.kind = "NAME_ERROR"
\* ------------------------------------------------------------- receivers
\* the receiver expression recv of a call the innermost activation is about
\* to execute evaluates to a null of a class type
NullReceiver(recv) ==
    /\ Running
    /\ recv \notin {"me", "super"}
    /\ LET r == evaluate_expression(cells, objs, Top, receiver(recv), NoLine)
       IN /\ r.st = "ok"
          /\ IsClassType(r.cells[r.ref].type)
          /\ r.cells[r.ref].o = NoObj

\* C11: a call, as a statement or as an expression, whose receiver evaluates
\* to a null of a class type ends the run with FAULT_ERROR at the line of the
\* statement that contains it, whatever its arguments are: also when
\* evaluating an argument would report an error of its own
C11_NullReceiverFault ==
    [][\A c \in CallsR :
          (NullReceiver(c.recv) /\ execute_call(c.form, "", c.recv, c.m, c.args))
              => /\ err'.kind = "FAULT_ERROR"
                 /\ err'.line = line_num(stack)
                 /\ stack' = << >>]_vars

\* a call whose argument names nothing has reported the null receiver, on a
\* line inside a begin block
C11_Witness ==
    /\ err.kind = "FAULT_ERROR"
    /\ err.msg = "null dereference"
    /\ err.line = err.stmt
    /\ err.line = 11

\* the activation at position i of the stack runs a method that was called
\* on an object other than the caller's `me` and `super`
OnOtherObject(i) ==
    /\ i > 1
    /\ stack[i].recv \notin
           {call_object(objs, stack[i - 1], "me",
                        passed_first_obj(stack[i - 1], stack[i - 1].pend), NoValue),
            objs[stack[i - 1].self].super_obj}

\* C19: in a method that was invoked on an explicit receiver X, a call on
\* `me` is made on X, the object the method was invoked on, not on the
\* object of the caller
C19_MeIsExplicitReceiver ==
    [][\A c \in CallsR :
          (/\ c.recv = "me"
           /\ Running
           /\ OnOtherObject(Len(stack))
           /\ execute_call(c.form, "", c.recv, c.m, c.args)
           /\ err' = NoErr)
              => stack'[Len(stack')].recv = Top.recv]_vars

\* ------------------------------------------------------------- operators
\* the Value of the local name in the innermost activation of a stack
LocalOf(cs, st, name) == cs[env_get(Last(st).env, name)]

\* the innermost activation is about to execute a statement and has a local name
HasLocal(name) == Running /\ env_get(Top.env, name) # NoRef

\* the quotient of a by b, b # 0, rounded toward zero
Magnitude(n) == IF n < 0 THEN 0 - n ELSE n
Truncated(a, b) ==
    IF (a < 0) = (b < 0) THEN Magnitude(a) \div Magnitude(b)
    ELSE 0 - (Magnitude(a) \div Magnitude(b))

\* C12: (set i (/ a b)) with INT literals a and b, b not zero, leaves in the
\* INT local i the quotient of a by b rounded toward zero, negative operands
\* included
C12_DivisionTruncates ==
    [][\A e \in Quotients :
          (HasLocal("i") /\ IntOf(e.rhs.tok) # 0 /\ execute_set("i", e))
              => /\ err' = NoErr
                 /\ LocalOf(cells', stack', "i") =
                        IntV(Truncated(IntOf(e.lhs.tok), IntOf(e.rhs.tok)))]_vars

\* the Value an operand that is a name or a literal of the innermost
\* activation evaluates to
OperandValue(e) ==
    LET r == evaluate_expression(cells, objs, Top, e, NoLine)
    IN IF r.st = "ok" THEN r.cells[r.ref] ELSE NoValue

IsReference(v) == v.type = "CLASS" \/ (IsClassType(v.type) /\ v.type # "None")

\* two references may be compared: their classes are the same or one is an
\* ancestor of the other, or one of them is the null literal
Comparable(v1, v2) ==
    \/ v1.type = "CLASS"
    \/ v2.type = "CLASS"
    \/ WalkUp(v1.type, v2.type) = v2.type
    \/ WalkUp(v2.type, v1.type) = v1.type

\* C13: wherever a statement may come next, (== e1 e2) and (!= e1 e2) on
\* two references evaluate as follows: when their classes are the same, or
\* one is an ancestor of the other, or one operand is the null literal, ==
\* yields true exactly if both are the same object or both are null, and !=
\* the opposite; otherwise TYPE_ERROR is reported
C13_ReferenceIdentity ==
    Running =>
        \A e \in Comparisons :
            (IsReference(OperandValue(e.lhs)) /\ IsReference(OperandValue(e.rhs))) =>
                LET r == evaluate_expression(cells, objs, Top, e, line_num(stack))
                IN r.st # "full" =>
                       IF Comparable(OperandValue(e.lhs), OperandValue(e.rhs))
                       THEN /\ r.st = "ok"
                            /\ r.cells[r.ref] =
                                   BoolV((OperandValue(e.lhs).o = OperandValue(e.rhs).o)
                                             = (e.op = "=="))
                       ELSE r.st = "err" /\ r.e.kind = "TYPE_ERROR"

\* a comparison of references of classes neither of which is an ancestor of
\* the other has been refused
C13_Witness ==
    /\ err.kind = "TYPE_ERROR"
    /\ err.msg = "operator applied to two incompatible types"
    /\ err.name \in {"==", "!="}

\* C16: (set b (! e)) leaves the negation of e in the BOOL local b when e is
\* a BOOL, and reports TYPE_ERROR when e is of any other type
C16_NotOnBoolOnly ==
    [][\A e \in Negations :
          (HasLocal("b") /\ OperandValue(e.lhs) # NoValue /\ execute_set("b", e))
              => IF OperandValue(e.lhs).type = "BOOL"
                 THEN /\ err' = NoErr
                      /\ LocalOf(cells', stack', "b") = BoolV(~OperandValue(e.lhs).b)
                 ELSE err'.kind = "TYPE_ERROR"]_vars

\* ------------------------------------------------------------ environments
\* the binding of name in the frame pushed last among those that define it
RECURSIVE Innermost(_, _)
Innermost(env, name) ==
    IF env = << >> THEN NoRef
    ELSE IF name \in DOMAIN Last(env) THEN Last(env)[name]
    ELSE Innermost(Front(env), name)

Shadowed(env, k, name) == \E j \in k + 1 .. Len(env) : name \in DOMAIN env[j]

\* C14: in the environment of the innermost activation, get(name) is the
\* binding of the frame pushed last among those that define name, and none
\* when no frame does; a step that pushes and removes no frame changes no
\* binding other than one that no later frame shadows; and when a frame is
\* removed, the bindings of the frames below, shadowed or not, and their
\* values are what they were
C14_InnermostBinding ==
    [][(stack # << >> /\ Len(stack') = Len(stack)) =>
          /\ \A n \in {"i", "b", "c", "zz"} :
                 /\ env_get(Top.env, n) = Innermost(Top.env, n)
                 /\ env_set(Top.env, n, NoRef) =
                        [k \in DOMAIN Top.env |->
                           [m \in DOMAIN Top.env[k] |->
                              IF m = n /\ ~Shadowed(Top.env, k, n) THEN NoRef
                              ELSE Top.env[k][m]]]
          /\ Len(Last(stack').env) = Len(Top.env) =>
                 \A k \in DOMAIN Top.env : \A n \in DOMAIN Top.env[k] :
                     Last(stack').env[k][n] # Top.env[k][n] => ~Shadowed(Top.env, k, n)
          /\ Len(Last(stack').env) < Len(Top.env) =>
                 /\ Last(stack').env = Front(Top.env)
                 /\ \A k \in DOMAIN Front(Top.env) : \A n \in DOMAIN Top.env[k] :
                        cells'[Top.env[k][n]] = cells[Top.env[k][n]]]_vars

\* a let inside a let that defines the same local i, whose value the body of
\* the inner let has changed
C14_Witness ==
    /\ err = NoErr /\ stack # << >>
    /\ Len(Top.env) = 3
    /\ "i" \in DOMAIN Top.env[2] /\ "i" \in DOMAIN Top.env[3]
    /\ cells[Top.env[3]["i"]] # cells[Top.env[2]["i"]]
    /\ cells[env_get(Top.env, "i")] = cells[Top.env[3]["i"]]

\* ------------------------------------------------------------ assignments
\* C15: (set fa e), fa being the field declared with class A and no local
\* hiding it, succeeds whenever e evaluates to null or to an object of class
\* A or of a subclass of A, whatever was assigned to fa before, and reports
\* TYPE_ERROR when e evaluates to anything else
C15_DeclaredTypeChecked ==
    [][\A e \in ExprsT :
          (/\ Running
           /\ "fa" \in DOMAIN objs[Top.self].fields
           /\ env_get(Top.env, "fa") = NoRef
           /\ OperandValue(e) # NoValue
           /\ execute_set("fa", e))
              => IF Compatible(FieldOf(objs[Top.self].cls, "fa").type, OperandValue(e),
                               evaluate_expression(cells, objs, Top, e, NoLine).objs)
                 THEN err' = NoErr
                 ELSE err'.kind = "TYPE_ERROR"]_vars

\* the Value objects that the fields of the objects and the frames of the
\* activations of a stack refer to
Held(os, st) ==
    UNION {Range(os[o].fields) : o \in {d \in Objs : os[d] # NoObject}}
    \cup UNION {UNION {Range(st[i].env[k]) : k \in DOMAIN st[i].env} : i \in DOMAIN st}

\* C18: a call that binds its arguments to the formals of the method leaves
\* every field and every local and parameter of the caller with the type and
\* the payload it had, and so does a step of the method called that assigns
\* to one of its formals or locals
C18_CallerUnchanged ==
    [][/\ (err' = NoErr /\ Len(stack') = Len(stack) + 1) =>
              \A c \in Held(objs, stack) : cells'[c] = cells[c]
       /\ (/\ err' = NoErr /\ Len(stack) >= 2 /\ Len(stack') = Len(stack)
           /\ Last(stack').env # Top.env /\ Len(Last(stack').env) = Len(Top.env)) =>
              /\ objs' = objs
              /\ \A c \in Held(objs, Front(stack)) : cells'[c] = cells[c]]_vars

\* ----------------------------------------------------------------- return
\* a generic null given the class of its context, any other Value as it is
Refined(v, type) ==
    IF v.type = "CLASS" /\ v.o = NoObj /\ IsClassType(type) THEN ObjV(type, NoObj) ELSE v

\* C17: once an activation has executed a return, at any nesting depth, the
\* only steps it takes are those that leave the compound statements around
\* the return, with the same returned value and no effect on the objects,
\* and then the end of the method, which hands the caller the value returned
\* (the default of the declared return type after a bare return: 0, false,
\* the empty string, the null of the class, nothing); and the end of a
\* method called by a call statement leaves the caller running, not returning
C17_ReturnEndsInvocation ==
    [][/\ (stack # << >> /\ Top.status = "ret" /\ Len(stack') >= Len(stack)) =>
              /\ Len(stack') = Len(stack)
              /\ Top.ctx # << >>
              /\ Last(stack').ctx = Front(Top.ctx)
              /\ Last(stack').status = "ret"
              /\ Last(stack').rv = Top.rv
              /\ objs' = objs
              /\ Top.rv # NoRef => cells'[Top.rv] = cells[Top.rv]
       /\ (/\ stack # << >> /\ Top.status = "ret"
           /\ err' = NoErr /\ Len(stack') = Len(stack) - 1) =>
              /\ Top.ctx = << >>
              /\ IF Explicit(Top)
                 THEN /\ ~last'.ret.default
                      /\ last'.ret.val \in {cells[Top.rv], Refined(cells[Top.rv], ReturnType(Top))}
                 ELSE last'.ret.default /\ last'.ret.val = DefaultOf(last'.ret.type)
       /\ (/\ Len(stack) >= 2 /\ err' = NoErr /\ Len(stack') = Len(stack) - 1
           /\ stack[Len(stack) - 1].pend = "stmt") =>
              /\ Last(stack').status \in {"run", "done"}
              /\ Last(stack').rv = NoRef]_vars

====
